---- MODULE Spec2Model ----
(***************************************************************************)
(* MarkLatex (src/main.py): the page-marks store, its JSON sidecar, the    *)
(* bounded undo log and the text wrapper of render_latex.                  *)
(*                                                                         *)
(* Mark records are Python dicts.  A dict has an identity and a content,   *)
(* so the model keeps a heap: heap[id] is the content of the dict whose    *)
(* identity is id.  all_marks, the scene items and the undo entries hold   *)
(* ids; dict(d) allocates a new id with the same content; `d in list` and  *)
(* list.remove(d) compare by identity or by content, as Python does.       *)
(***************************************************************************)
EXTENDS Integers, Sequences, FiniteSets, Bags, TLC

VARIABLES
    pdf_path,          \* self.pdf_path: the open file, or None
    current_page_idx,  \* self.current_page_idx
    all_marks,         \* self.all_marks: page index -> sequence of mark ids
    heap,              \* the mark dicts: id -> fields
    undo_stack,        \* self.undo_stack
    scene,             \* the LatexItems of self.scene: mark id -> item position
    disk,              \* the .mlat sidecar of every file
    nops,              \* number of push_undo_action calls so far (bounds the run)
    run,               \* history: the pushes since the last undo, and the undos after them
    last,              \* history: what the last handler did
    wrap,              \* the call of wrap_text under study: text, width, result
    norm,              \* the call of get_normalized_doc under study: file, result
    comp,              \* the call of export_pdf_with_marks under study: file, marks, result
    batch              \* the files of self.file_list as Export All finds them, and its results

vars == <<pdf_path, current_page_idx, all_marks, heap, undo_stack, scene, disk,
          nops, run, last, wrap, norm, comp, batch>>

appvars == <<pdf_path, current_page_idx, all_marks, heap, undo_stack, scene, disk,
             nops, run, last>>

-----------------------------------------------------------------------------
(* Bounds *)

MaxOps == 2        \* push_undo_action calls explored under Spec
MaxMarks == 4      \* mark dicts allocated per open document
MaxSel == 2        \* items selected when Delete is pressed
MaxLogPushes == 22 \* push_undo_action calls explored under SpecLog
MaxLogUndos == 2   \* consecutive undo calls explored under SpecLog
LogUndoFrom == 15  \* pushes made under SpecLog before the first undo is explored
MaxLen == 5        \* characters of a text given to wrap_text under SpecWrap
MaxWidth == 3      \* widths given to wrap_text under SpecWrap
MaxDocPages == 2   \* pages of a source file under SpecNorm and SpecExport
MaxPageMarks == 2  \* marks on the annotated page under SpecExport
MaxBatch == 2      \* files of the list given to Export All under SpecBatch

(* Program constants *)

DEFAULT_FONT == "Fira Code"
DEFAULT_SIZE == 10
DEFAULT_WRAP == 30
undo_limit == 20

None == "None"

Files == {"a.pdf"}

\* len(self.doc): every document has two pages
Pages == 0 .. 1

\* scene positions a double click or a drag can end on
Positions == {<<10, 20>>, <<50, 60>>}

\* what MarkPropertiesDialog.get_data can return (text is non-empty here)
Styles ==
    { [text |-> "good", font |-> DEFAULT_FONT, size |-> DEFAULT_SIZE, width |-> DEFAULT_WRAP],
      [text |-> "nice", font |-> "Arial", size |-> 12, width |-> 40] }

Mark(style, pos) ==
    [text |-> style.text, x |-> pos[1], y |-> pos[2],
     font |-> style.font, size |-> style.size, width |-> style.width]

-----------------------------------------------------------------------------
(* Python list and dict primitives on mark ids *)

Range(s) == { s[i] : i \in 1 .. Len(s) }

\* a is b or a == b, for two dicts of heap h
SameOrEqual(h, a, b) == a = b \/ h[a] = h[b]

\* m in list
ListContains(h, list, m) == \E i \in 1 .. Len(list) : SameOrEqual(h, list[i], m)

\* list.index(m), defined when m in list
ListIndex(h, list, m) ==
    CHOOSE i \in 1 .. Len(list) :
        /\ SameOrEqual(h, list[i], m)
        /\ \A j \in 1 .. (i - 1) : ~SameOrEqual(h, list[j], m)

RemoveAt(list, i) == SubSeq(list, 1, i - 1) \o SubSeq(list, i + 1, Len(list))

\* list.remove(m), defined when m in list
ListRemove(h, list, m) == RemoveAt(list, ListIndex(h, list, m))

\* mark.update(d): the keys of d overwrite those of the mark
DictUpdate(fields, d) ==
    [k \in DOMAIN fields |-> IF k \in DOMAIN d THEN d[k] ELSE fields[k]]

\* the content of a page-marks mapping: page -> sequence of mark fields
Content(marks, h) ==
    [p \in DOMAIN marks |-> [i \in 1 .. Len(marks[p]) |-> h[marks[p][i]]]]

-----------------------------------------------------------------------------
(* Sidecar *)

\* a sidecar file: whether it exists, whether open(path, 'w') succeeds, whether a
\* write to it fails (full: no space left on the device), and what it holds: form is
\* "object" for a JSON object whose "all_marks" is the object all_marks,
\* "no_all_marks" for a JSON object without that key, "marks_array" when "all_marks"
\* is an array, "array" for a JSON array, "invalid" for text that is not JSON

\* the file does not exist
Absent ==
    [exists |-> FALSE, writable |-> TRUE, full |-> FALSE,
     form |-> "", pdf_path |-> "",
     all_marks |-> [k \in {} |-> <<>>]]

\* json.dump writes the integer page keys as decimal strings
DumpKey(p) == ToString(p)

\* int(k) succeeds: k is the decimal form of a page index
IsIntKey(k) == \E p \in Pages : ToString(p) = k

\* int(k) on a key json.dump wrote
LoadKey(k) == CHOOSE p \in Pages : ToString(p) = k

\* get_sidecar_path / json.dump({"pdf_path": ..., "all_marks": ...})
SidecarOf(path, marks, h) ==
    [exists |-> TRUE, writable |-> TRUE, full |-> FALSE,
     form |-> "object", pdf_path |-> path,
     all_marks |-> [k \in { DumpKey(p) : p \in DOMAIN marks } |->
                        Content(marks, h)[LoadKey(k)]]]

\* what open(path, 'w') leaves when json.dump then fails: an emptied or partly
\* written file, which is not JSON
Truncated(file) ==
    [file EXCEPT !.exists = TRUE, !.form = "invalid", !.pdf_path = "",
                 !.all_marks = [k \in {} |-> <<>>]]

\* save_sidecar writing the mapping as it was when the file was last written
save_sidecar_stale(d, path, marks, h) == d

\* save_sidecar: the disk after the call; when open fails nothing is written, when
\* the write fails the file open has emptied stays; the error is swallowed
save_sidecar(d, path, marks, h) ==
    IF path = None \/ ~d[path].writable THEN d
    ELSE IF d[path].full THEN [d EXCEPT ![path] = Truncated(d[path])]
    ELSE [d EXCEPT ![path] = SidecarOf(path, marks, h)]

\* sidecars file f can have when its folder is opened: none, or one written by an
\* earlier session with two marks on page 0
InitialSidecars(f) ==
    { Absent,
      [exists |-> TRUE, writable |-> TRUE, full |-> FALSE,
     form |-> "object", pdf_path |-> f,
       all_marks |-> [k \in {"0"} |->
            << Mark(CHOOSE s \in Styles : s.text = "good", <<10, 20>>),
               Mark(CHOOSE s \in Styles : s.text = "nice", <<50, 60>>) >>]] }

\* the dicts json.load builds for a sidecar, page by page: <<all_marks, heap>>
RECURSIVE LoadPages(_, _, _, _)
LoadPages(keys, data, marks, h) ==
    IF keys = {} THEN <<marks, h>>
    ELSE LET k == CHOOSE x \in keys : \A y \in keys : LoadKey(x) <= LoadKey(y)
             n == Len(data[k])
             ids == [i \in 1 .. n |-> Len(h) + i]
         IN  LoadPages(keys \ {k}, data,
                       [p \in DOMAIN marks \cup {LoadKey(k)} |->
                            IF p = LoadKey(k) THEN ids ELSE marks[p]],
                       h \o data[k])

EmptyMarks == [p \in {} |-> <<>>]

\* json.load and the comprehension over data.get("all_marks", {}).items() succeed
Loadable(file) ==
    /\ file.exists
    /\ file.form \in {"object", "no_all_marks"}
    /\ \A k \in DOMAIN file.all_marks : IsIntKey(k)

\* load_sidecar_data leaving self.all_marks alone
load_sidecar_data_keeps(d, path, marks, h) == <<marks, h>>

\* load_sidecar_data when self.all_marks is marks: <<all_marks, heap>> after the call
load_sidecar_data(d, path, marks, h) ==
    IF ~d[path].exists THEN <<marks, h>>
    ELSE IF ~Loadable(d[path]) THEN <<EmptyMarks, h>>
    ELSE LoadPages(DOMAIN d[path].all_marks, d[path].all_marks, EmptyMarks, h)

\* render_current_page: one LatexItem per mark of the current page, at the mark's x, y
render_current_page(marks, h, page) ==
    IF page \in DOMAIN marks
    THEN [m \in Range(marks[page]) |-> <<h[m].x, h[m].y>>]
    ELSE [m \in {} |-> <<0, 0>>]

\* the value a field of a mark record has when the dict has no such key
MissingField == [font |-> "", size |-> 0 - 1, width |-> 0 - 1]

\* if 'font' not in m: m['font'] = DEFAULT_FONT, and the same for size and width
mark_with_defaults(m) ==
    [m EXCEPT !.font = IF @ = MissingField.font THEN DEFAULT_FONT ELSE @,
              !.size = IF @ = MissingField.size THEN DEFAULT_SIZE ELSE @,
              !.width = IF @ = MissingField.width THEN DEFAULT_WRAP ELSE @]

\* render_current_page, the mark dicts after it: those of the current page have
\* their defaults, the dicts of the other pages are not touched
ensure_defaults(marks, h, page) ==
    [i \in DOMAIN h |->
        IF page \in DOMAIN marks /\ i \in Range(marks[page])
        THEN mark_with_defaults(h[i])
        ELSE h[i]]

-----------------------------------------------------------------------------
(* History variables *)

NoRun == [undos |-> -1]
NoWrap == [text |-> <<>>, width |-> 0, out |-> <<>>, done |-> FALSE]
NoDoc == [returned |-> "", pages |-> <<>>, raw_doc |-> <<>>, closed |-> FALSE]
NoNorm == [raw_doc |-> <<>>, opens |-> FALSE, out |-> NoDoc, done |-> FALSE]
NoComp == [src |-> <<>>, marks |-> <<>>, out |-> <<>>, done |-> FALSE]
NoBatch == [files |-> <<>>, results |-> <<>>, raised |-> FALSE, done |-> FALSE]

Snapshot == [marks |-> all_marks, heap |-> heap]

\* the handler pushed `entries` (removed[i] is the id entry i took out of a list, or 0)
RunAfterPush(entries, removed) ==
    IF entries = <<>> THEN run
    ELSE IF run = NoRun \/ run.undos > 0
    THEN [base |-> Snapshot, stack0 |-> undo_stack, pushed |-> entries,
          removed |-> removed, undos |-> 0]
    ELSE [run EXCEPT !.pushed = @ \o entries, !.removed = @ \o removed]

\* the handler `op` returned; saved: it called save_sidecar; raised: it raised an error
Did(op, saved) == [op |-> op, saved |-> saved, raised |-> FALSE]

-----------------------------------------------------------------------------
(* Undo log *)

\* push_undo_action evicting with pop() instead of pop(0): the newest entry is lost
push_undo_action_pop_newest(stack, payload) ==
    LET s == Append(stack, payload)
    IN  IF Len(s) > undo_limit THEN SubSeq(s, 1, Len(s) - 1) ELSE s

\* push_undo_action: the stack after the call
push_undo_action(stack, payload) ==
    LET s == Append(stack, payload)
    IN  IF Len(s) > undo_limit THEN Tail(s) ELSE s

-----------------------------------------------------------------------------
(* Handlers *)

Init ==
    /\ pdf_path = None
    /\ current_page_idx = 0
    /\ all_marks = EmptyMarks
    /\ heap = <<>>
    /\ undo_stack = <<>>
    /\ scene = [m \in {} |-> <<0, 0>>]
    /\ disk \in { d \in [Files -> UNION { InitialSidecars(f) : f \in Files }] :
                    \A f \in Files : d[f] \in InitialSidecars(f) }
    /\ nops = 0
    /\ run = NoRun
    /\ last = Did("init", FALSE)
    /\ wrap = NoWrap
    /\ norm = NoNorm
    /\ comp = NoComp
    /\ batch = NoBatch

\* load_file_by_index without self.undo_stack = []
load_file_by_index_keeps_undo(f) ==
    LET d1 == save_sidecar(disk, pdf_path, all_marks, heap)
        loaded == load_sidecar_data(d1, f, EmptyMarks, <<>>)
    IN  /\ disk' = d1
        /\ pdf_path' = f
        /\ current_page_idx' = 0
        /\ all_marks' = loaded[1]
        /\ heap' = ensure_defaults(loaded[1], loaded[2], 0)
        /\ scene' = render_current_page(loaded[1], loaded[2], 0)
        /\ run' = NoRun
        /\ last' = Did("load", pdf_path # None)
        /\ UNCHANGED <<undo_stack, nops, wrap, norm, comp, batch>>

\* load_file_by_index: save the open document's sidecar, then open file f
load_file_by_index(f) ==
    LET d1 == save_sidecar(disk, pdf_path, all_marks, heap)
        loaded == load_sidecar_data(d1, f, EmptyMarks, <<>>)
    IN  /\ disk' = d1
        /\ pdf_path' = f
        /\ current_page_idx' = 0
        /\ all_marks' = loaded[1]
        /\ heap' = ensure_defaults(loaded[1], loaded[2], 0)
        /\ undo_stack' = <<>>
        /\ scene' = render_current_page(loaded[1], loaded[2], 0)
        /\ run' = NoRun
        /\ last' = Did("load", pdf_path # None)
        /\ UNCHANGED <<nops, wrap, norm, comp, batch>>

\* next_page
next_page ==
    /\ pdf_path # None
    /\ current_page_idx < Cardinality(Pages) - 1
    /\ current_page_idx' = current_page_idx + 1
    /\ heap' = ensure_defaults(all_marks, heap, current_page_idx + 1)
    /\ scene' = render_current_page(all_marks, heap, current_page_idx + 1)
    /\ last' = Did("next_page", FALSE)
    /\ UNCHANGED <<pdf_path, all_marks, undo_stack, disk, nops, run, wrap, norm, comp, batch>>

\* prev_page
prev_page ==
    /\ pdf_path # None
    /\ current_page_idx > 0
    /\ current_page_idx' = current_page_idx - 1
    /\ heap' = ensure_defaults(all_marks, heap, current_page_idx - 1)
    /\ scene' = render_current_page(all_marks, heap, current_page_idx - 1)
    /\ last' = Did("prev_page", FALSE)
    /\ UNCHANGED <<pdf_path, all_marks, undo_stack, disk, nops, run, wrap, norm, comp, batch>>

\* scene_double_click_handler on empty scene space at pos, dialog accepted with `style`
scene_double_click_handler(pos, style) ==
    LET new_mark == Len(heap) + 1
        h1 == Append(heap, Mark(style, pos))
        list == IF current_page_idx \in DOMAIN all_marks
                THEN all_marks[current_page_idx] ELSE <<>>
        m1 == [p \in DOMAIN all_marks \cup {current_page_idx} |->
                 IF p = current_page_idx THEN Append(list, new_mark) ELSE all_marks[p]]
        entry == [type |-> "add", mark |-> new_mark, page |-> current_page_idx]
    IN  /\ pdf_path # None
        /\ \A m \in DOMAIN scene : scene[m] # pos
        /\ Len(heap) < MaxMarks
        /\ heap' = h1
        /\ all_marks' = m1
        /\ undo_stack' = push_undo_action(undo_stack, entry)
        /\ scene' = [m \in DOMAIN scene \cup {new_mark} |->
                        IF m = new_mark THEN pos ELSE scene[m]]
        /\ disk' = save_sidecar(disk, pdf_path, m1, h1)
        /\ nops' = nops + 1
        /\ run' = RunAfterPush(<<entry>>, <<0>>)
        /\ last' = Did("add", TRUE)
        /\ UNCHANGED <<pdf_path, current_page_idx, wrap, norm, comp, batch>>

\* LatexItem.mouseDoubleClickEvent on the item of mark `it`, dialog accepted with `style`
mouseDoubleClickEvent(it, style) ==
    LET before_state == heap[it]
        h1 == [heap EXCEPT ![it] = DictUpdate(@, style)]
        entry == [type |-> "edit", before |-> before_state, mark |-> it]
    IN  /\ it \in DOMAIN scene
        /\ heap' = h1
        /\ disk' = save_sidecar(disk, pdf_path, all_marks, h1)
        /\ undo_stack' = push_undo_action(undo_stack, entry)
        /\ nops' = nops + 1
        /\ run' = RunAfterPush(<<entry>>, <<0>>)
        /\ last' = Did("edit", TRUE)
        /\ UNCHANGED <<pdf_path, current_page_idx, all_marks, scene, wrap, norm, comp, batch>>

\* LatexItem.mousePressEvent ... mouseReleaseEvent: the item of mark `it` is pressed
\* and released at new_pos (new_pos = its position: a click without a drag)
mouseReleaseEvent(it, new_pos, budget) ==
    LET old_pos == scene[it]
        h1 == [heap EXCEPT ![it].x = new_pos[1], ![it].y = new_pos[2]]
        entry == [type |-> "move", before |-> old_pos, after |-> new_pos, mark |-> it]
        pushes == new_pos # old_pos
    IN  /\ it \in DOMAIN scene
        /\ pushes => nops < budget
        /\ heap' = h1
        /\ scene' = [scene EXCEPT ![it] = new_pos]
        /\ disk' = save_sidecar(disk, pdf_path, all_marks, h1)
        /\ undo_stack' = IF pushes THEN push_undo_action(undo_stack, entry) ELSE undo_stack
        /\ nops' = IF pushes THEN nops + 1 ELSE nops
        /\ run' = IF pushes THEN RunAfterPush(<<entry>>, <<0>>)
                  ELSE IF h1 = heap THEN run ELSE NoRun
        /\ last' = Did(IF pushes THEN "move" ELSE "click", TRUE)
        /\ UNCHANGED <<pdf_path, current_page_idx, all_marks, wrap, norm, comp, batch>>

\* keyPressEvent, Key_Delete: the loop over the selected items, in the order `sel`;
\* st is <<all_marks[current_page_idx], heap, undo_stack, scene, entries, removed>>
RECURSIVE DeleteSelected(_, _)
DeleteSelected(sel, st) ==
    IF sel = <<>> THEN st
    ELSE LET item == Head(sel)
             list == st[1]
             copy == Len(st[2]) + 1
             entry == [type |-> "delete", mark |-> copy, page |-> current_page_idx]
             gone == list[ListIndex(st[2], list, item)]
         IN  IF ListContains(st[2], list, item)
             THEN DeleteSelected(Tail(sel),
                      << ListRemove(st[2], list, item),
                         Append(st[2], st[2][item]),
                         push_undo_action(st[3], entry),
                         [m \in DOMAIN st[4] \ {item} |-> st[4][m]],
                         Append(st[5], entry),
                         Append(st[6], gone) >>)
             ELSE DeleteSelected(Tail(sel),
                      << list, st[2], st[3],
                         [m \in DOMAIN st[4] \ {item} |-> st[4][m]],
                         st[5], st[6] >>)

keyPressEvent_Delete(sel) ==
    LET list == IF current_page_idx \in DOMAIN all_marks
                THEN all_marks[current_page_idx] ELSE <<>>
        st == DeleteSelected(sel, <<list, heap, undo_stack, scene, <<>>, <<>>>>)
        m1 == IF current_page_idx \in DOMAIN all_marks
              THEN [all_marks EXCEPT ![current_page_idx] = st[1]] ELSE all_marks
    IN  /\ pdf_path # None
        /\ Range(sel) \subseteq DOMAIN scene
        /\ \A i, j \in 1 .. Len(sel) : i # j => sel[i] # sel[j]
        /\ nops + Len(sel) <= MaxOps
        /\ Len(heap) + Len(sel) <= MaxMarks
        /\ all_marks' = m1
        /\ heap' = st[2]
        /\ undo_stack' = st[3]
        /\ scene' = st[4]
        /\ disk' = save_sidecar(disk, pdf_path, m1, st[2])
        /\ nops' = nops + Len(st[5])
        /\ run' = RunAfterPush(st[5], st[6])
        /\ last' = Did("delete", TRUE)
        /\ UNCHANGED <<pdf_path, current_page_idx, wrap, norm, comp, batch>>

\* undo_last_action, action_type == "add": <<all_marks, heap>> after it
undo_add(action, marks, h) ==
    IF action.page \in DOMAIN marks /\ ListContains(h, marks[action.page], action.mark)
    THEN << [marks EXCEPT ![action.page] = ListRemove(h, @, action.mark)], h >>
    ELSE <<marks, h>>

\* undo of a delete appending to the displayed page instead of action["page"]
undo_delete_on_shown_page(action, marks, h, page_shown) ==
    << [p \in DOMAIN marks \cup {page_shown} |->
           IF p = page_shown
           THEN Append(IF p \in DOMAIN marks THEN marks[p] ELSE <<>>, action.mark)
           ELSE marks[p]],
       h >>

\* undo_last_action, action_type == "delete"
undo_delete(action, marks, h, page_shown) ==
    << [p \in DOMAIN marks \cup {action.page} |->
           IF p = action.page
           THEN Append(IF p \in DOMAIN marks THEN marks[p] ELSE <<>>, action.mark)
           ELSE marks[p]],
       h >>

\* undo_last_action, action_type == "edit"
undo_edit(action, marks, h, page_shown) ==
    IF page_shown \in DOMAIN marks /\ ListContains(h, marks[page_shown], action.mark)
    THEN <<marks, [h EXCEPT ![action.mark] = DictUpdate(@, action.before)]>>
    ELSE <<marks, h>>

\* undo of a move restoring x and leaving y
undo_move_x_only(action, marks, h) ==
    <<marks, [h EXCEPT ![action.mark].x = action.before[1]]>>

\* undo_last_action, action_type == "move"
undo_move(action, marks, h) ==
    <<marks, [h EXCEPT ![action.mark].x = action.before[1],
                       ![action.mark].y = action.before[2]]>>

\* undo_last_action, the dispatch on action_type
UndoEntry(action, marks, h, page_shown) ==
    IF action.type = "add" THEN undo_add(action, marks, h)
    ELSE IF action.type = "delete" THEN undo_delete(action, marks, h, page_shown)
    ELSE IF action.type = "edit" THEN undo_edit(action, marks, h, page_shown)
    ELSE IF action.type = "move" THEN undo_move(action, marks, h)
    ELSE <<marks, h>>

\* undo_last_action without the early return: falls through to save_and_refresh
undo_empty_saves ==
    /\ last' = Did("undo", TRUE)
    /\ disk' = save_sidecar(disk, pdf_path, all_marks, heap)
    /\ UNCHANGED <<pdf_path, current_page_idx, all_marks, heap, undo_stack, scene,
                   nops, run, wrap, norm, comp, batch>>

\* undo_last_action with an empty stack: the early return
undo_empty ==
    /\ last' = Did("undo", FALSE)
    /\ UNCHANGED <<pdf_path, current_page_idx, all_marks, heap, undo_stack, scene,
                   disk, nops, run, wrap, norm, comp, batch>>

\* undo_last_action (Ctrl+Z)
undo_last_action ==
    IF undo_stack = <<>>
    THEN undo_empty
    ELSE LET action == undo_stack[Len(undo_stack)]
             r == UndoEntry(action, all_marks, heap, current_page_idx)
         IN  /\ undo_stack' = SubSeq(undo_stack, 1, Len(undo_stack) - 1)
             /\ all_marks' = r[1]
             /\ heap' = r[2]
             /\ disk' = save_sidecar(disk, pdf_path, r[1], r[2])
             /\ run' = IF run = NoRun THEN NoRun ELSE [run EXCEPT !.undos = @ + 1]
             /\ last' = Did("undo", TRUE)
             /\ UNCHANGED <<pdf_path, current_page_idx, scene, nops, wrap, norm, comp, batch>>

Next ==
    \/ \E f \in Files : load_file_by_index(f)
    \/ next_page
    \/ prev_page
    \/ \E pos \in Positions, style \in Styles :
           nops < MaxOps /\ scene_double_click_handler(pos, style)
    \/ \E it \in DOMAIN scene, style \in Styles :
           nops < MaxOps /\ mouseDoubleClickEvent(it, style)
    \/ \E it \in DOMAIN scene, new_pos \in Positions : mouseReleaseEvent(it, new_pos, MaxOps)
    \/ \E n \in 0 .. MaxSel : \E sel \in [1 .. n -> DOMAIN scene] : keyPressEvent_Delete(sel)
    \/ undo_last_action

Spec == Init /\ [][Next]_vars

-----------------------------------------------------------------------------
(* Undo exactness *)

\* all_marks.get(p, [])
PageList(marks, p) == IF p \in DOMAIN marks THEN marks[p] ELSE <<>>

\* the marks of page p as field records, in list order (no list: no marks)
PageContent(marks, h, p) ==
    IF p \in DOMAIN marks THEN [i \in 1 .. Len(marks[p]) |-> h[marks[p][i]]] ELSE <<>>

\* the marks of a list as a bag: content without order
SeqBag(s) == [e \in Range(s) |-> Cardinality({ i \in 1 .. Len(s) : s[i] = e })]

StoredIds(marks) == UNION { Range(marks[p]) : p \in DOMAIN marks }

\* the run is: exactly one push of an entry of type t, then exactly one undo
OneThenUndo(t) ==
    /\ run.undos = 1
    /\ Len(run.pushed) = 1
    /\ run.pushed[1].type = t

\* C1: n mutations followed by n undo calls leave every page with the same marks
\* (same text, position and style) as before the first mutation.
UndoRunRestoresContent ==
    (run.undos >= 1 /\ run.undos = Len(run.pushed)) =>
        \A p \in Pages :
            SeqBag(PageContent(all_marks, heap, p))
                = SeqBag(PageContent(run.base.marks, run.base.heap, p))

\* C2: editing a stored mark and then calling undo restores every field of the mark,
\* whichever page is displayed when undo is called.
EditUndoRestoresFields ==
    (OneThenUndo("edit") /\ run.pushed[1].mark \in StoredIds(run.base.marks)) =>
        heap[run.pushed[1].mark] = run.base.heap[run.pushed[1].mark]

\* C3: undoing a Delete puts back the record instance that was taken out of the list,
\* so that undoing an earlier Move of that mark afterwards acts on the stored record.
UndoDeleteRestoresSameInstance ==
    /\ OneThenUndo("delete") =>
          LET list == all_marks[run.pushed[1].page]
          IN  list[Len(list)] = run.removed[1]
    /\ ( /\ run.undos = 2
         /\ Len(run.pushed) = 2
         /\ run.pushed[1].type = "move"
         /\ run.pushed[2].type = "delete"
         /\ run.removed[2] = run.pushed[1].mark ) =>
          LET list == all_marks[run.pushed[2].page]
          IN  <<heap[list[Len(list)]].x, heap[list[Len(list)]].y>> = run.pushed[1].before

\* C4: deleting a mark of page p and then calling undo appends the mark to page p's
\* list: page p holds the same marks as before the delete and no other list changes.
DeleteUndoRestoresPage ==
    OneThenUndo("delete") =>
        LET e == run.pushed[1]
            p == e.page
            old == run.base.marks[p]
            at == CHOOSE i \in 1 .. Len(old) : old[i] = run.removed[1]
        IN  /\ p \in DOMAIN all_marks
            /\ all_marks[p] = Append(RemoveAt(old, at), e.mark)
            /\ heap[e.mark] = run.base.heap[run.removed[1]]
            /\ SeqBag(PageContent(all_marks, heap, p))
                   = SeqBag(PageContent(run.base.marks, run.base.heap, p))
            /\ \A q \in Pages \ {p} :
                   /\ q \in DOMAIN all_marks <=> q \in DOMAIN run.base.marks
                   /\ q \in DOMAIN all_marks => all_marks[q] = run.base.marks[q]
            /\ \A m \in 1 .. Len(run.base.heap) : heap[m] = run.base.heap[m]

\* C4 happens: a mark that was not the last of its list was deleted and put back
DeleteUndoWitness ==
    /\ OneThenUndo("delete")
    /\ Len(all_marks[run.pushed[1].page]) >= 2
    /\ run.base.marks[run.pushed[1].page][1] = run.removed[1]
    /\ heap[run.pushed[1].mark].text = "good"

\* C5: adding a mark to page p and then calling undo leaves page p's list as it was
\* before the add, same marks in the same order.
AddUndoRestoresList ==
    OneThenUndo("add") =>
        PageContent(all_marks, heap, run.pushed[1].page)
            = PageContent(run.base.marks, run.base.heap, run.pushed[1].page)

UndoOnEmptyLogIsNoOp ==
    [][ (undo_stack = <<>> /\ last'.op = "undo") =>
            /\ all_marks' = all_marks
            /\ heap' = heap
            /\ undo_stack' = <<>>
            /\ disk' = disk
            /\ ~last'.saved
            /\ ~last'.raised ]_vars

\* C8 happens: undo returned early while the store held marks
UndoOnEmptyLogWitness ==
    /\ last.op = "undo"
    /\ ~last.saved
    /\ undo_stack = <<>>
    /\ StoredIds(all_marks) # {}

\* C9: removal is by identity: pressing Delete takes out of the list exactly the
\* records of the selected items, and undoing an Add takes out exactly the added record.
RemovalIsByIdentity ==
    [][ LET ids == Range(PageList(all_marks, current_page_idx))
            top == undo_stack[Len(undo_stack)]
        IN  /\ last'.op = "delete" =>
                  ids \ Range(PageList(all_marks', current_page_idx))
                      = (DOMAIN scene \ DOMAIN scene') \cap ids
            /\ ( /\ last'.op = "undo"
                 /\ undo_stack # <<>>
                 /\ top.type = "add"
                 /\ top.mark \in Range(PageList(all_marks, top.page)) ) =>
                  Range(PageList(all_marks', top.page))
                      = Range(PageList(all_marks, top.page)) \ {top.mark}
      ]_vars

\* C28: after an add, delete, move, edit or undo of an entry has returned and its
\* write succeeded, the sidecar on disk holds the page-marks mapping as it is in
\* memory: each of them saves after it has changed the mapping.
SidecarFollowsMapping ==
    ( /\ last.op \in {"add", "delete", "move", "edit", "undo"}
      /\ last.saved
      /\ disk[pdf_path].writable
      /\ ~disk[pdf_path].full )
    => disk[pdf_path] = SidecarOf(pdf_path, all_marks, heap)

\* C28 happens: a mark was added on page 1 and the first mark of page 0 moved, and
\* the undo of the move has been saved
SidecarFollowsMappingWitness ==
    /\ last.op = "undo"
    /\ last.saved
    /\ Len(undo_stack) = 1
    /\ undo_stack[1].type = "add"
    /\ DOMAIN all_marks = {0, 1}
    /\ Len(all_marks[0]) = 2
    /\ Len(all_marks[1]) = 1
    /\ DOMAIN disk[pdf_path].all_marks = {"0", "1"}
    /\ disk[pdf_path].all_marks["0"][1].x = 10
    /\ disk[pdf_path].all_marks["1"][1].text = "nice"

-----------------------------------------------------------------------------
(* The undo log at its capacity *)

\* the document of a.pdf is open with the two marks of its sidecar, nothing done yet
InitLog ==
    LET d == [f \in Files |-> CHOOSE sc \in InitialSidecars(f) : sc.exists]
        loaded == load_sidecar_data(d, "a.pdf", EmptyMarks, <<>>)
    IN  /\ pdf_path = "a.pdf"
        /\ current_page_idx = 0
        /\ all_marks = loaded[1]
        /\ heap = ensure_defaults(loaded[1], loaded[2], 0)
        /\ undo_stack = <<>>
        /\ scene = render_current_page(loaded[1], loaded[2], 0)
        /\ disk = d
        /\ nops = 0
        /\ run = NoRun
        /\ last = Did("load", FALSE)
        /\ wrap = NoWrap
        /\ norm = NoNorm
        /\ comp = NoComp
        /\ batch = NoBatch

\* the first mark is dragged back and forth; undo is explored once LogUndoFrom pushes
\* have been made, with at most MaxLogUndos undos in a row
NextLog ==
    \/ \E new_pos \in Positions :
           new_pos # scene[1] /\ mouseReleaseEvent(1, new_pos, MaxLogPushes)
    \/ (nops >= LogUndoFrom /\ run.undos < MaxLogUndos /\ undo_last_action)

SpecLog == InitLog /\ [][NextLog]_vars

\* the last n elements of s
LastN(s, n) == SubSeq(s, Len(s) - n + 1, Len(s))

Min(a, b) == IF a < b THEN a ELSE b

\* C7: the log never holds more than undo_limit entries; pushes beyond the capacity
\* discard the oldest entries, so the log holds the most recent ones in push order,
\* and successive undos pop and reverse them most-recent-first.
LogKeepsMostRecent ==
    /\ Len(undo_stack) <= undo_limit
    /\ run.undos >= 0 =>
          LET full == run.stack0 \o run.pushed
              kept == LastN(full, Min(undo_limit, Len(full)))
              left == IF run.undos < Len(kept) THEN Len(kept) - run.undos ELSE 0
              popped == kept[left + 1]
          IN  /\ undo_stack = SubSeq(kept, 1, left)
              /\ (run.undos >= 1 /\ left < Len(kept) /\ popped.type = "move") =>
                     <<heap[popped.mark].x, heap[popped.mark].y>> = popped.before

\* C7 happens: more pushes than the capacity, then two undos
LogKeepsMostRecentWitness ==
    /\ run.undos = 2
    /\ Len(run.stack0) + Len(run.pushed) > undo_limit
    /\ Len(undo_stack) = undo_limit - 2

-----------------------------------------------------------------------------
(* render_latex.wrap_text: a string is a sequence of characters *)

\* the characters of the texts explored
Alphabet == {"a", " ", "$", ",", "\n"}

\* str.isspace, on the characters a text can hold here
isspace(ch) == ch \in {" ", "\t", "\n", "\r"}

\* punctuation = ".,;:!?" and the full-width forms of , . ; : ! ?
punctuation ==
    {".", ",", ";", ":", "!", "?", "U+FF0C", "U+3002", "U+FF1B", "U+FF1A", "U+FF01", "U+FF1F"}

\* str.splitlines: split at "\n", "\r" and "\r\n"; no empty last line
RECURSIVE splitlines(_)
splitlines(text) ==
    IF text = <<>> THEN <<>>
    ELSE IF \E i \in 1 .. Len(text) : text[i] \in {"\n", "\r"}
    THEN LET i == CHOOSE k \in 1 .. Len(text) :
                      /\ text[k] \in {"\n", "\r"}
                      /\ \A j \in 1 .. (k - 1) : text[j] \notin {"\n", "\r"}
             brk == IF text[i] = "\r" /\ i < Len(text) /\ text[i + 1] = "\n" THEN 2 ELSE 1
         IN  <<SubSeq(text, 1, i - 1)>> \o splitlines(SubSeq(text, i + brk, Len(text)))
    ELSE <<text>>

\* line.find(ch, from): the first index >= from holding ch, or 0
find(line, ch, from) ==
    IF \E k \in from .. Len(line) : line[k] = ch
    THEN CHOOSE k \in from .. Len(line) :
             line[k] = ch /\ \A j \in from .. (k - 1) : line[j] # ch
    ELSE 0

\* the first index >= from whose character is not in set, or Len(line) + 1
SkipWhile(line, from, set) ==
    IF \E k \in from .. Len(line) : line[k] \notin set
    THEN CHOOSE k \in from .. Len(line) :
             line[k] \notin set /\ \A j \in from .. (k - 1) : line[j] \in set
    ELSE Len(line) + 1

\* tokens with `current` appended when it is not empty
Flush(tokens, current) == IF current # <<>> THEN Append(tokens, current) ELSE tokens

\* the tokenizer loop leaving the punctuation after a span to the next token
RECURSIVE Tokenize_detached_punctuation(_, _, _, _)
Tokenize_detached_punctuation(line, i, current, tokens) ==
    IF i > Len(line) THEN Flush(tokens, current)
    ELSE LET ch == line[i]
             end == find(line, "$", i + 1)
             stop == end + 1
         IN  IF isspace(ch)
             THEN Tokenize_detached_punctuation(line, SkipWhile(line, i, {" ", "\t", "\n", "\r"}),
                           <<>>, Append(Flush(tokens, current), <<" ">>))
             ELSE IF ch = "$" /\ end # 0
             THEN Tokenize_detached_punctuation(line, stop, <<>>,
                           Append(Flush(tokens, current), SubSeq(line, i, stop - 1)))
             ELSE IF ch = "$"
             THEN Tokenize_detached_punctuation(line, i + 1, <<ch>>, Flush(tokens, current))
             ELSE Tokenize_detached_punctuation(line, i + 1, Append(current, ch), tokens)

\* wrap_line, the tokenizer loop: i is the index, current the plain run being read
RECURSIVE Tokenize(_, _, _, _)
Tokenize(line, i, current, tokens) ==
    IF i > Len(line) THEN Flush(tokens, current)
    ELSE LET ch == line[i]
             end == find(line, "$", i + 1)
             stop == SkipWhile(line, end + 1, punctuation)
         IN  IF isspace(ch)
             THEN Tokenize(line, SkipWhile(line, i, {" ", "\t", "\n", "\r"}), <<>>,
                           Append(Flush(tokens, current), <<" ">>))
             ELSE IF ch = "$" /\ end # 0
             THEN Tokenize(line, stop, <<>>,
                           Append(Flush(tokens, current), SubSeq(line, i, stop - 1)))
             ELSE IF ch = "$"
             THEN Tokenize(line, i + 1, <<ch>>, Flush(tokens, current))
             ELSE Tokenize(line, i + 1, Append(current, ch), tokens)

\* lines.append(current_line) without the rstrip
rstrip_nothing(str) == str

\* str.rstrip
RECURSIVE rstrip(_)
rstrip(str) ==
    IF str # <<>> /\ isspace(str[Len(str)]) THEN rstrip(SubSeq(str, 1, Len(str) - 1)) ELSE str

\* str.endswith(" ")
EndsWithSpace(str) == str # <<>> /\ str[Len(str)] = " "

\* the fill loop not counting the separating space in extra_len
FillToken_no_spacer_len(st, token, width) ==
    IF token = <<" ">>
    THEN IF st.current_line # <<>> /\ ~EndsWithSpace(st.current_line)
         THEN IF st.current_len + 1 > width
              THEN [lines |-> Append(st.lines, rstrip(st.current_line)),
                    current_line |-> <<>>, current_len |-> 0]
              ELSE [st EXCEPT !.current_line = Append(@, " "), !.current_len = @ + 1]
         ELSE st
    ELSE IF st.current_line = <<>>
    THEN [st EXCEPT !.current_line = token, !.current_len = Len(token)]
    ELSE LET spacer == IF EndsWithSpace(st.current_line) THEN <<>> ELSE <<" ">>
             extra_len == Len(token)
         IN  IF st.current_len + extra_len > width
             THEN [lines |-> Append(st.lines, rstrip(st.current_line)),
                   current_line |-> token, current_len |-> Len(token)]
             ELSE [st EXCEPT !.current_line = @ \o spacer \o token,
                             !.current_len = @ + extra_len]

\* wrap_line, one round of the fill loop; st is [lines, current_line, current_len]
FillToken(st, token, width) ==
    IF token = <<" ">>
    THEN IF st.current_line # <<>> /\ ~EndsWithSpace(st.current_line)
         THEN IF st.current_len + 1 > width
              THEN [lines |-> Append(st.lines, rstrip(st.current_line)),
                    current_line |-> <<>>, current_len |-> 0]
              ELSE [st EXCEPT !.current_line = Append(@, " "), !.current_len = @ + 1]
         ELSE st
    ELSE IF st.current_line = <<>>
    THEN [st EXCEPT !.current_line = token, !.current_len = Len(token)]
    ELSE LET spacer == IF EndsWithSpace(st.current_line) THEN <<>> ELSE <<" ">>
             extra_len == (IF spacer # <<>> THEN 1 ELSE 0) + Len(token)
         IN  IF st.current_len + extra_len > width
             THEN [lines |-> Append(st.lines, rstrip(st.current_line)),
                   current_line |-> token, current_len |-> Len(token)]
             ELSE [st EXCEPT !.current_line = @ \o spacer \o token,
                             !.current_len = @ + extra_len]

\* wrap_line, the fill loop over the tokens
RECURSIVE Fill(_, _, _)
Fill(tokens, st, width) ==
    IF tokens = <<>> THEN st ELSE Fill(Tail(tokens), FillToken(st, Head(tokens), width), width)

\* wrap_line: the lines one input line is wrapped into
wrap_line(line, width) ==
    LET st == Fill(Tokenize(line, 1, <<>>, <<>>),
                   [lines |-> <<>>, current_line |-> <<>>, current_len |-> 0], width)
    IN  IF st.current_line # <<>> THEN Append(st.lines, rstrip(st.current_line)) ELSE st.lines

\* wrapped_lines.extend(wrap_line(raw_line)) for every raw_line
RECURSIVE WrapLines(_, _)
WrapLines(raw_lines, width) ==
    IF raw_lines = <<>> THEN <<>>
    ELSE wrap_line(Head(raw_lines), width) \o WrapLines(Tail(raw_lines), width)

\* "\n".join(lines)
RECURSIVE join(_)
join(lines) ==
    IF lines = <<>> THEN <<>>
    ELSE IF Len(lines) = 1 THEN lines[1]
    ELSE lines[1] \o <<"\n">> \o join(Tail(lines))

\* wrap_text
wrap_text(raw_text, width) == join(WrapLines(splitlines(raw_text), width))

\* the texts of at most n characters
RECURSIVE Texts(_)
Texts(n) ==
    IF n = 0 THEN {<<>>}
    ELSE Texts(n - 1) \cup { Append(t, c) : t \in { u \in Texts(n - 1) : Len(u) = n - 1 },
                                            c \in Alphabet }

\* application state after construction, and one text and width to wrap
InitWrap ==
    /\ pdf_path = None
    /\ current_page_idx = 0
    /\ all_marks = EmptyMarks
    /\ heap = <<>>
    /\ undo_stack = <<>>
    /\ scene = [m \in {} |-> <<0, 0>>]
    /\ disk = [f \in Files |-> Absent]
    /\ nops = 0
    /\ run = NoRun
    /\ last = Did("init", FALSE)
    /\ wrap \in { [text |-> t, width |-> w, out |-> <<>>, done |-> FALSE] :
                      t \in Texts(MaxLen), w \in 1 .. MaxWidth }
    /\ norm = NoNorm
    /\ comp = NoComp
    /\ batch = NoBatch

\* render_latex: wrapped_text = wrap_text(text, wrap_width)
render_latex_wrap ==
    /\ ~wrap.done
    /\ wrap' = [wrap EXCEPT !.out = wrap_text(wrap.text, wrap.width), !.done = TRUE]
    /\ UNCHANGED <<appvars, norm, comp, batch>>

NextWrap == render_latex_wrap

SpecWrap == InitWrap /\ [][NextWrap]_vars

\* the lines of a wrapped text: the pieces between its "\n"
RECURSIVE OutLines(_)
OutLines(str) ==
    IF \E i \in 1 .. Len(str) : str[i] = "\n"
    THEN LET i == find(str, "\n", 1)
         IN  <<SubSeq(str, 1, i - 1)>> \o OutLines(SubSeq(str, i + 1, Len(str)))
    ELSE <<str>>

\* the non-space tokens of the lines of a text
TokensOf(text) ==
    UNION { Range(Tokenize(l, 1, <<>>, <<>>)) \ {<<" ">>} : l \in Range(splitlines(text)) }

\* C10: every line of wrap(text, width) has at most width characters unless it is
\* exactly one token; a token longer than width is a line of its own, in full.
WrapLinesFitWidth ==
    wrap.done =>
        /\ \A i \in 1 .. Len(OutLines(wrap.out)) :
               LET line == OutLines(wrap.out)[i]
               IN  Len(line) <= wrap.width \/ line \in TokensOf(wrap.text)
        /\ \A l \in Range(splitlines(wrap.text)) :
               \A t \in Range(Tokenize(l, 1, <<>>, <<>>)) \ {<<" ">>} :
                   Len(t) > wrap.width => t \in Range(wrap_line(l, wrap.width))

\* C10 happens: a token longer than the width sits between two shorter tokens
WrapLinesFitWidthWitness ==
    /\ wrap.done
    /\ wrap.width = 2
    /\ wrap.text = <<"a", " ", "$", "a", "$">>
    /\ wrap.out = <<"a", "\n", "$", "a", "$">>

\* the `$...$` spans of a line from index `from` on, each with the punctuation that
\* follows it: a span runs from a "$" to the first "$" after it
RECURSIVE Spans(_, _)
Spans(line, from) ==
    LET open == find(line, "$", from)
        close == find(line, "$", open + 1)
        stop == SkipWhile(line, close + 1, punctuation)
    IN  IF open = 0 \/ close = 0 THEN <<>>
        ELSE <<SubSeq(line, open, stop - 1)>> \o Spans(line, stop)

\* the spans of a sequence of lines, in order
RECURSIVE SpansOfLines(_)
SpansOfLines(lines) ==
    IF lines = <<>> THEN <<>> ELSE Spans(Head(lines), 1) \o SpansOfLines(Tail(lines))

\* C11: every `$...$` span of an input line, with the punctuation right after it, is
\* found unbroken on one line of wrap(text, width): the lines of the output hold the
\* same spans with the same punctuation, in the same order, as the lines of the input.
SpansStayWhole ==
    wrap.done => SpansOfLines(OutLines(wrap.out)) = SpansOfLines(splitlines(wrap.text))

\* C11 happens: a span with its comma is longer than the width and follows a word
SpansStayWholeWitness ==
    /\ wrap.done
    /\ wrap.width = 2
    /\ wrap.text = <<"a", "$", "a", "$", ",">>
    /\ wrap.out = <<"a", "\n", "$", "a", "$", ",">>

\* str without its whitespace characters
RECURSIVE NoSpaces(_)
NoSpaces(str) ==
    IF str = <<>> THEN <<>>
    ELSE IF isspace(Head(str)) THEN NoSpaces(Tail(str))
    ELSE <<Head(str)>> \o NoSpaces(Tail(str))

\* part is a run of consecutive characters of whole
IsPartOf(part, whole) ==
    \E i \in 1 .. (Len(whole) + 1) :
        /\ i + Len(part) - 1 <= Len(whole)
        /\ SubSeq(whole, i, i + Len(part) - 1) = part

\* C12: wrap keeps the explicit line breaks: wrap(text, width) has at least as many
\* lines as text has, empty and whitespace-only lines included, and the words of an
\* output line all come from one input line.
WrapKeepsLineBreaks ==
    wrap.done =>
        /\ Len(OutLines(wrap.out)) >= Len(splitlines(wrap.text))
        /\ \A i \in 1 .. Len(OutLines(wrap.out)) :
               \/ wrap.out = <<>>
               \/ \E l \in Range(splitlines(wrap.text)) :
                      IsPartOf(NoSpaces(OutLines(wrap.out)[i]), NoSpaces(l))

\* C13: wrapping is idempotent at a fixed width: wrapping wrap(text, width) again at
\* the same width gives wrap(text, width), for every text and every width >= 1.
WrapIsIdempotent ==
    wrap.done => wrap_text(wrap.out, wrap.width) = wrap.out

\* C13 happens: a span holding a space, a word right after it and an unclosed "$"
\* are laid out on two lines, and wrapping the two lines again changes nothing
WrapIsIdempotentWitness ==
    /\ wrap.done
    /\ wrap.width = 3
    /\ wrap.text = <<"$", " ", "$", "a", "$">>
    /\ wrap.out = <<"$", " ", "$", "\n", "a", " ", "$">>
    /\ wrap_text(wrap.out, wrap.width) = wrap.out

\* the non-space tokens of a sequence of input lines, in order
RECURSIVE TokenSeq(_)
TokenSeq(lines) ==
    IF lines = <<>> THEN <<>>
    ELSE SelectSeq(Tokenize(Head(lines), 1, <<>>, <<>>), LAMBDA t : t # <<" ">>)
             \o TokenSeq(Tail(lines))

\* str is the tokens in order, each two neighbours with exactly one space or one
\* line break between them and nothing before the first or after the last
RECURSIVE SeparatedByOne(_, _)
SeparatedByOne(str, tokens) ==
    IF tokens = <<>> THEN str = <<>>
    ELSE LET n == Len(Head(tokens))
         IN  /\ Len(str) >= n
             /\ SubSeq(str, 1, n) = Head(tokens)
             /\ IF Len(tokens) = 1 THEN Len(str) = n
                ELSE /\ Len(str) > n + 1
                     /\ str[n + 1] \in {" ", "\n"}
                     /\ SeparatedByOne(SubSeq(str, n + 2, Len(str)), Tail(tokens))

\* C30: wrap changes only the whitespace between tokens: the output is the non-space
\* tokens of the input lines, unchanged and in order, with exactly one space or one
\* line break between neighbours; no output line is empty or begins or ends with
\* whitespace.
WrapChangesOnlyWhitespace ==
    wrap.done =>
        /\ SeparatedByOne(wrap.out, TokenSeq(splitlines(wrap.text)))
        /\ wrap.out # <<>> =>
               \A i \in 1 .. Len(OutLines(wrap.out)) :
                   LET line == OutLines(wrap.out)[i]
                   IN  /\ line # <<>>
                       /\ ~isspace(line[1])
                       /\ ~isspace(line[Len(line)])

\* C30 happens: two words with two spaces between them and an unclosed "$" right
\* after the second: one space on the first line, the "$" on a line of its own
WrapChangesOnlyWhitespaceWitness ==
    /\ wrap.done
    /\ wrap.width = 3
    /\ wrap.text = <<"a", " ", " ", "a", "$">>
    /\ TokenSeq(splitlines(wrap.text)) = << <<"a">>, <<"a">>, <<"$">> >>
    /\ wrap.out = <<"a", " ", "a", "\n", "$">>

-----------------------------------------------------------------------------
(* get_normalized_doc: a page is its stored rotation, its unrotated size in       *)
(* points and what is drawn on it                                                 *)

\* page.rotation of the source pages explored: multiples of 90, some beyond 270
Rotations == {0, 90, 180, 270, 360, 450}

\* (width, height) of the unrotated source pages explored
PageSizes == {<<40, 50>>, <<60, 30>>}

\* fitz.Rect(x0, y0, x1, y1)
Rect(x0, y0, x1, y1) == [x0 |-> x0, y0 |-> y0, x1 |-> x1, y1 |-> y1]

\* page number `number` of a file as fitz.open(pdf_path) gives it
SourcePage(rotation, size, number) ==
    [rotation |-> rotation, width |-> size[1], height |-> size[2],
     content |-> [number |-> number, rotate |-> 0]]

\* the files explored: 1 .. MaxDocPages pages, every rotation and size
SourceDocs ==
    UNION { { [i \in 1 .. n |-> SourcePage(c[i][1], c[i][2], i - 1)] :
                  c \in [1 .. n -> Rotations \X PageSizes] } : n \in 1 .. MaxDocPages }

\* page.rect: the visual rectangle, the rotation applied
page_rect(page) ==
    IF page.rotation % 180 = 90
    THEN Rect(0, 0, page.height, page.width)
    ELSE Rect(0, 0, page.width, page.height)

\* page.set_rotation(r)
set_rotation(page, r) == [page EXCEPT !.rotation = r]

\* one round of the loop: clean_doc.new_page(...) and show_pdf_page(..., rotate=-r)
new_page(page) ==
    LET r == page.rotation % 360
        vis_rect == page_rect(page)
    IN  [rotation |-> 0,
         width |-> vis_rect.x1 - vis_rect.x0,
         height |-> vis_rect.y1 - vis_rect.y0,
         content |-> [number |-> page.content.number, rotate |-> 0 - r]]

\* one round of the loop: the source page after set_rotation(0) and set_rotation(r)
restored_page(page) ==
    LET r == page.rotation % 360
    IN  IF r = 0 THEN page ELSE set_rotation(set_rotation(page, 0), r)

\* get_normalized_doc: what is returned, its pages, and raw_doc after the call
get_normalized_doc(raw_doc, opens) ==
    IF ~opens THEN [returned |-> "None", pages |-> <<>>, raw_doc |-> <<>>, closed |-> FALSE]
    ELSE IF ~(\E i \in 1 .. Len(raw_doc) : raw_doc[i].rotation % 360 # 0)
    THEN [returned |-> "raw_doc", pages |-> raw_doc, raw_doc |-> raw_doc, closed |-> FALSE]
    ELSE [returned |-> "clean_doc",
          pages |-> [i \in 1 .. Len(raw_doc) |-> new_page(raw_doc[i])],
          raw_doc |-> [i \in 1 .. Len(raw_doc) |-> restored_page(raw_doc[i])],
          closed |-> TRUE]

\* application state after construction, and one file to normalize
InitNorm ==
    /\ pdf_path = None
    /\ current_page_idx = 0
    /\ all_marks = EmptyMarks
    /\ heap = <<>>
    /\ undo_stack = <<>>
    /\ scene = [m \in {} |-> <<0, 0>>]
    /\ disk = [f \in Files |-> Absent]
    /\ nops = 0
    /\ run = NoRun
    /\ last = Did("init", FALSE)
    /\ wrap = NoWrap
    /\ norm \in { [raw_doc |-> d, opens |-> o, out |-> NoDoc, done |-> FALSE] :
                      d \in SourceDocs, o \in BOOLEAN }
    /\ comp = NoComp
    /\ batch = NoBatch

\* self.doc = self.get_normalized_doc(self.pdf_path)
normalize ==
    /\ ~norm.done
    /\ norm' = [norm EXCEPT !.out = get_normalized_doc(norm.raw_doc, norm.opens),
                            !.done = TRUE]
    /\ UNCHANGED <<appvars, wrap, comp, batch>>

NextNorm == normalize

SpecNorm == InitNorm /\ [][NextNorm]_vars

-----------------------------------------------------------------------------
(* export_pdf_with_marks: a mark is its position and the pixmap render_latex      *)
(* gives for it                                                                   *)

RENDER_DPI == 300

\* what render_latex can return: a null pixmap, or one of these sizes in pixels
Pixmaps ==
    { [null |-> TRUE, width |-> 0, height |-> 0],
      [null |-> FALSE, width |-> 50, height |-> 25],
      [null |-> FALSE, width |-> 250, height |-> 200] }

\* the marks explored: left of, above or inside the page; one of them, left of and
\* above the page, does not render
ExportMarks ==
    { [x |-> x, y |-> y, pix |-> pix] :
          x \in {-10, -4, 5}, y \in {-10, 5}, pix \in { q \in Pixmaps : ~q.null } }
    \cup { [x |-> -10, y |-> -10, pix |-> CHOOSE q \in Pixmaps : q.null] }

\* the lists of at most n marks
RECURSIVE MarkLists(_)
MarkLists(n) ==
    IF n = 0 THEN {<<>>}
    ELSE MarkLists(n - 1) \cup { Append(l, m) : l \in { u \in MarkLists(n - 1) : Len(u) = n - 1 },
                                                m \in ExportMarks }

\* the files exported: pages of one size, upright or rotated by 90
ExportDocs ==
    { d \in SourceDocs : \A i \in 1 .. Len(d) :
          d[i].rotation \in {0, 90} /\ <<d[i].width, d[i].height>> = <<40, 50>> }

\* pix.width() * 72 / RENDER_DPI
points(pixels) == (pixels * 72) \div RENDER_DPI

\* fitz.Rect(m['x'], m['y'], m['x'] + w, m['y'] + h)
m_rect(m) == Rect(m.x, m.y, m.x + points(m.pix.width), m.y + points(m.pix.height))

\* total_rect never growing
Union_keeps_first(a, b) == a

\* a | b on two fitz.Rect that are not empty
Union(a, b) ==
    Rect(IF a.x0 < b.x0 THEN a.x0 ELSE b.x0, IF a.y0 < b.y0 THEN a.y0 ELSE b.y0,
         IF a.x1 > b.x1 THEN a.x1 ELSE b.x1, IF a.y1 > b.y1 THEN a.y1 ELSE b.y1)

\* marks_to_render without `if pix.isNull(): continue`
marks_to_render_with_null(list) == [k \in 1 .. Len(list) |-> m_rect(list[k])]

\* the rectangles of marks_to_render: the marks whose pixmap is not null
RECURSIVE marks_to_render(_)
marks_to_render(list) ==
    IF list = <<>> THEN <<>>
    ELSE (IF Head(list).pix.null THEN <<>> ELSE <<m_rect(Head(list))>>)
             \o marks_to_render(Tail(list))

\* total_rect starting from the first mark instead of the page
RECURSIVE total_rect_marks_only(_, _)
total_rect_marks_only(rect, m_rects) ==
    IF m_rects = <<>> THEN rect
    ELSE IF Len(m_rects) = 1 THEN Head(m_rects)
    ELSE Union(Head(m_rects), total_rect_marks_only(rect, Tail(m_rects)))

\* total_rect = fitz.Rect(source_page.rect), then total_rect |= m_rect for every mark
RECURSIVE total_rect(_, _)
total_rect(rect, m_rects) ==
    IF m_rects = <<>> THEN rect ELSE total_rect(Union(rect, Head(m_rects)), Tail(m_rects))

\* the offset that ignores how far the marks reach past the edge
offset_none(v0) == 0

\* offset_x = -total_rect.x0 if total_rect.x0 < 0 else 0
offset(v0) == IF v0 < 0 THEN 0 - v0 ELSE 0

\* final_rect of a mark image
final_rect(r, offset_x, offset_y) ==
    Rect(r.x0 + offset_x, r.y0 + offset_y, r.x1 + offset_x, r.y1 + offset_y)

\* one round of the page loop: the page added to export_doc
compose_page(source_page, list) ==
    LET source_rect == page_rect(source_page)
        to_render == marks_to_render(list)
        total == total_rect(source_rect, to_render)
        offset_x == offset(total.x0)
        offset_y == offset(total.y0)
    IN  [width |-> total.x1 - total.x0,
         height |-> total.y1 - total.y0,
         offset_x |-> offset_x,
         offset_y |-> offset_y,
         dest_rect |-> Rect(offset_x, offset_y,
                            offset_x + (source_rect.x1 - source_rect.x0),
                            offset_y + (source_rect.y1 - source_rect.y0)),
         content |-> source_page.content,
         images |-> [k \in 1 .. Len(to_render) |-> final_rect(to_render[k], offset_x, offset_y)]]

\* export_pdf_with_marks adding a page only for the source pages that have marks
export_pdf_with_marks_marked_only(src, marks) ==
    LET content_source_doc == get_normalized_doc(src, TRUE).pages
    IN  IF 0 \in DOMAIN marks /\ marks[0] # <<>>
        THEN << compose_page(content_source_doc[1], marks[0]) >>
        ELSE <<>>

\* export_pdf_with_marks: the pages of export_doc
export_pdf_with_marks(src, marks) ==
    LET content_source_doc == get_normalized_doc(src, TRUE).pages
    IN  [i \in 1 .. Len(content_source_doc) |->
            compose_page(content_source_doc[i],
                         IF (i - 1) \in DOMAIN marks THEN marks[i - 1] ELSE <<>>)]

\* application state after construction, and one file to export with marks on one page
InitExport ==
    /\ pdf_path = None
    /\ current_page_idx = 0
    /\ all_marks = EmptyMarks
    /\ heap = <<>>
    /\ undo_stack = <<>>
    /\ scene = [m \in {} |-> <<0, 0>>]
    /\ disk = [f \in Files |-> Absent]
    /\ nops = 0
    /\ run = NoRun
    /\ last = Did("init", FALSE)
    /\ wrap = NoWrap
    /\ norm = NoNorm
    /\ comp \in { [src |-> d, marks |-> [q \in {p} |-> l], out |-> <<>>, done |-> FALSE] :
                      d \in ExportDocs, p \in 0 .. (MaxDocPages - 1),
                      l \in MarkLists(MaxPageMarks) }
    /\ batch = NoBatch

\* self.export_pdf_with_marks(pdf_path, marks, out_path)
export ==
    /\ ~comp.done
    /\ comp' = [comp EXCEPT !.out = export_pdf_with_marks(comp.src, comp.marks),
                            !.done = TRUE]
    /\ UNCHANGED <<appvars, wrap, norm, batch>>

NextExport == export

SpecExport == InitExport /\ [][NextExport]_vars

\* the marks given for the page composed as page i of the output
MarksOfPage(i) == IF (i - 1) \in DOMAIN comp.marks THEN comp.marks[i - 1] ELSE <<>>

\* the marks of a list that rasterize, in list order
RECURSIVE Rasterized(_)
Rasterized(list) ==
    IF list = <<>> THEN <<>>
    ELSE (IF Head(list).pix.null THEN <<>> ELSE <<Head(list)>>) \o Rasterized(Tail(list))

\* the rectangle r lies inside [0, width] x [0, height]
Inside(r, width, height) ==
    /\ 0 <= r.x0 /\ r.x0 <= r.x1 /\ r.x1 <= width
    /\ 0 <= r.y0 /\ r.y0 <= r.y1 /\ r.y1 <= height

\* the least and the greatest number of a finite non-empty set
Least(S) == CHOOSE v \in S : \A u \in S : v <= u
Greatest(S) == CHOOSE v \in S : \A u \in S : v >= u

\* the visual width and height of source page i
VisualWidth(i) == page_rect(comp.src[i]).x1
VisualHeight(i) == page_rect(comp.src[i]).y1

\* C14: every composed page contains, after the offset, the whole rectangle of the
\* original page and the whole rectangle of every mark image, and the offset is the
\* least one: offset_x = max(0, -min x) and offset_y = max(0, -min y) over the union.
ComposedPageContainsAll ==
    comp.done =>
        /\ Len(comp.out) = Len(comp.src)
        /\ \A i \in 1 .. Len(comp.out) :
               LET page == comp.out[i]
                   marks == Rasterized(MarksOfPage(i))
                   min_x == Least({0} \cup { marks[k].x : k \in 1 .. Len(marks) })
                   min_y == Least({0} \cup { marks[k].y : k \in 1 .. Len(marks) })
               IN  /\ page.dest_rect =
                          Rect(page.offset_x, page.offset_y,
                               page.offset_x + VisualWidth(i), page.offset_y + VisualHeight(i))
                   /\ Inside(page.dest_rect, page.width, page.height)
                   /\ Len(page.images) = Len(marks)
                   /\ \A k \in 1 .. Len(marks) :
                          /\ page.images[k] =
                                 Rect(marks[k].x + page.offset_x,
                                      marks[k].y + page.offset_y,
                                      marks[k].x + points(marks[k].pix.width) + page.offset_x,
                                      marks[k].y + points(marks[k].pix.height) + page.offset_y)
                          /\ Inside(page.images[k], page.width, page.height)
                   /\ page.offset_x = Greatest({0, 0 - min_x})
                   /\ page.offset_y = Greatest({0, 0 - min_y})

\* C14 happens: a rotated page with a mark past its top left corner and a mark past
\* its right and bottom edges, followed by a page without marks
ComposedPageContainsAllWitness ==
    /\ comp.done
    /\ Len(comp.src) = 2
    /\ comp.src[1].rotation = 90
    /\ Len(MarksOfPage(1)) = 2
    /\ MarksOfPage(1)[1] = [x |-> -10, y |-> -10, pix |-> [null |-> FALSE, width |-> 50, height |-> 25]]
    /\ MarksOfPage(1)[2] = [x |-> 5, y |-> 5, pix |-> [null |-> FALSE, width |-> 250, height |-> 200]]
    /\ comp.out[1].width = 75
    /\ comp.out[1].height = 63
    /\ comp.out[1].offset_x = 10
    /\ comp.out[1].images[1].x0 = 0
    /\ comp.out[2].images = <<>>

\* the rasterizing marks of page i all lie inside the original page rectangle
MarksInsidePage(i) ==
    \A k \in 1 .. Len(Rasterized(MarksOfPage(i))) :
        Inside(m_rect(Rasterized(MarksOfPage(i))[k]), VisualWidth(i), VisualHeight(i))

\* C15: a page whose mark rectangles all lie inside the original page rectangle, and
\* a page without marks, is composed with the width and height of the original page
\* and offset (0, 0), and every mark image is placed at exactly (mark.x, mark.y).
PageWithoutOverflowKeepsSize ==
    comp.done =>
        \A i \in 1 .. Len(comp.out) :
            MarksInsidePage(i) =>
                /\ comp.out[i].width = VisualWidth(i)
                /\ comp.out[i].height = VisualHeight(i)
                /\ comp.out[i].offset_x = 0
                /\ comp.out[i].offset_y = 0
                /\ Len(comp.out[i].images) = Len(Rasterized(MarksOfPage(i)))
                /\ \A k \in 1 .. Len(comp.out[i].images) :
                       /\ comp.out[i].images[k].x0 = Rasterized(MarksOfPage(i))[k].x
                       /\ comp.out[i].images[k].y0 = Rasterized(MarksOfPage(i))[k].y

\* C15 happens: an upright page with one mark inside it and one that does not
\* rasterize, followed by a rotated page without marks
PageWithoutOverflowKeepsSizeWitness ==
    /\ comp.done
    /\ Len(comp.src) = 2
    /\ comp.src[1].rotation = 0
    /\ comp.src[2].rotation = 90
    /\ Len(MarksOfPage(1)) = 2
    /\ MarksOfPage(1)[1].pix.null
    /\ MarksOfPage(1)[2] = [x |-> 5, y |-> 5, pix |-> [null |-> FALSE, width |-> 50, height |-> 25]]
    /\ MarksInsidePage(1)
    /\ comp.out[1].width = 40
    /\ comp.out[1].height = 50
    /\ comp.out[1].images = <<Rect(5, 5, 17, 11)>>
    /\ comp.out[2].width = 50
    /\ comp.out[2].height = 40

\* C16 as stated: on a page with a mark at negative x the composed width is the
\* original width plus the overflow of the mark past the left edge, the content is
\* placed that far to the right with the width and height of the source page, and
\* the left edge of the mark lands at x = 0; the same for y and the top edge.
NegativeMarkGrowsPageByOverflow ==
    comp.done =>
        \A i \in 1 .. Len(comp.out) :
            \A k \in 1 .. Len(Rasterized(MarksOfPage(i))) :
                LET page == comp.out[i]
                    mark == Rasterized(MarksOfPage(i))[k]
                IN  /\ mark.x < 0 =>
                           /\ page.width = VisualWidth(i) + (0 - mark.x)
                           /\ page.dest_rect.x0 = 0 - mark.x
                           /\ page.dest_rect.x1 - page.dest_rect.x0 = VisualWidth(i)
                           /\ page.dest_rect.y1 - page.dest_rect.y0 = VisualHeight(i)
                           /\ page.images[k].x0 = 0
                    /\ mark.y < 0 =>
                           /\ page.height = VisualHeight(i) + (0 - mark.y)
                           /\ page.dest_rect.y0 = 0 - mark.y
                           /\ page.dest_rect.x1 - page.dest_rect.x0 = VisualWidth(i)
                           /\ page.dest_rect.y1 - page.dest_rect.y0 = VisualHeight(i)
                           /\ page.images[k].y0 = 0

\* how far the rectangles reach past `edge`, or 0
Overflow(ends, edge) == Greatest({0} \cup { e - edge : e \in ends })

\* C16, amended: on a page whose marks reach a least x of -d < 0 the offset is d: the
\* composed width is the original width plus d plus what the marks reach past the
\* right edge, the content is placed at x = d with the width and height of the source
\* page, every mark lands at mark.x + d and so the leftmost one at x = 0; the same
\* for y, the top and the bottom edge.
LeftmostMarkSetsOffset ==
    comp.done =>
        \A i \in 1 .. Len(comp.out) :
            LET page == comp.out[i]
                marks == Rasterized(MarksOfPage(i))
                min_x == Least({0} \cup { marks[k].x : k \in 1 .. Len(marks) })
                min_y == Least({0} \cup { marks[k].y : k \in 1 .. Len(marks) })
                right == { m_rect(marks[k]).x1 : k \in 1 .. Len(marks) }
                bottom == { m_rect(marks[k]).y1 : k \in 1 .. Len(marks) }
            IN  /\ min_x < 0 =>
                       /\ page.offset_x = 0 - min_x
                       /\ page.width = VisualWidth(i) + (0 - min_x) + Overflow(right, VisualWidth(i))
                       /\ page.dest_rect.x0 = 0 - min_x
                       /\ page.dest_rect.x1 - page.dest_rect.x0 = VisualWidth(i)
                       /\ page.dest_rect.y1 - page.dest_rect.y0 = VisualHeight(i)
                       /\ \A k \in 1 .. Len(marks) : page.images[k].x0 = marks[k].x - min_x
                       /\ \E k \in 1 .. Len(marks) : page.images[k].x0 = 0
                /\ min_y < 0 =>
                       /\ page.offset_y = 0 - min_y
                       /\ page.height = VisualHeight(i) + (0 - min_y) + Overflow(bottom, VisualHeight(i))
                       /\ page.dest_rect.y0 = 0 - min_y
                       /\ page.dest_rect.x1 - page.dest_rect.x0 = VisualWidth(i)
                       /\ page.dest_rect.y1 - page.dest_rect.y0 = VisualHeight(i)
                       /\ \A k \in 1 .. Len(marks) : page.images[k].y0 = marks[k].y - min_y
                       /\ \E k \in 1 .. Len(marks) : page.images[k].y0 = 0

\* C16 happens: a small mark at x = -10 and a large one at x = -4 that reaches past
\* the right edge, the first above the page and the second past the bottom edge
LeftmostMarkSetsOffsetWitness ==
    /\ comp.done
    /\ Len(comp.src) = 1
    /\ comp.src[1].rotation = 0
    /\ MarksOfPage(1) =
           << [x |-> -10, y |-> -10, pix |-> [null |-> FALSE, width |-> 50, height |-> 25]],
              [x |-> -4, y |-> 5, pix |-> [null |-> FALSE, width |-> 250, height |-> 200]] >>
    /\ comp.out[1].width = 40 + 10 + 16
    /\ comp.out[1].height = 50 + 10 + 3
    /\ comp.out[1].dest_rect = Rect(10, 10, 50, 60)
    /\ comp.out[1].images = <<Rect(0, 0, 12, 6), Rect(6, 15, 66, 63)>>

\* C17: every page of the document get_normalized_doc returns has stored rotation 0
\* and the visual width and height of the source page, and the pages are those of the
\* source, as many and in the same order, on the fast path and on the rebuild path.
NormalizedPagesAreUpright ==
    (norm.done /\ norm.out.returned # "None") =>
        /\ Len(norm.out.pages) = Len(norm.raw_doc)
        /\ \A i \in 1 .. Len(norm.out.pages) :
               /\ norm.out.pages[i].rotation = 0
               /\ norm.out.pages[i].width = page_rect(norm.raw_doc[i]).x1
               /\ norm.out.pages[i].height = page_rect(norm.raw_doc[i]).y1
               /\ norm.out.pages[i].content.number = i - 1

\* C18: when no page has a rotation that is non-zero mod 360, get_normalized_doc
\* returns the opened document itself with nothing changed; otherwise it returns a
\* new document and every source page has its original rotation once it returns.
NormalizeLeavesSourceAsItWas ==
    (norm.done /\ norm.out.returned # "None") =>
        IF \A i \in 1 .. Len(norm.raw_doc) : norm.raw_doc[i].rotation % 360 = 0
        THEN /\ norm.out.returned = "raw_doc"
             /\ norm.out.pages = norm.raw_doc
             /\ norm.out.raw_doc = norm.raw_doc
        ELSE /\ norm.out.returned = "clean_doc"
             /\ \A i \in 1 .. Len(norm.raw_doc) :
                    norm.out.raw_doc[i].rotation = norm.raw_doc[i].rotation

\* C24: a mark whose rasterization fails is skipped: the page is as large as the
\* original page and the other marks of the list make it, the other marks are placed
\* at their offset positions in list order, and every page of the file is composed.
FailedMarkIsSkipped ==
    comp.done =>
        /\ Len(comp.out) = Len(comp.src)
        /\ \A i \in 1 .. Len(comp.out) :
               LET page == comp.out[i]
                   others == Rasterized(MarksOfPage(i))
                   K == 1 .. Len(others)
                   x0 == Least({0} \cup { others[k].x : k \in K })
                   y0 == Least({0} \cup { others[k].y : k \in K })
                   x1 == Greatest({VisualWidth(i)}
                             \cup { others[k].x + points(others[k].pix.width) : k \in K })
                   y1 == Greatest({VisualHeight(i)}
                             \cup { others[k].y + points(others[k].pix.height) : k \in K })
               IN  (\E k \in 1 .. Len(MarksOfPage(i)) : MarksOfPage(i)[k].pix.null) =>
                       /\ page.width = x1 - x0
                       /\ page.height = y1 - y0
                       /\ Len(page.images) = Len(others)
                       /\ \A k \in K :
                              /\ page.images[k].x0 = others[k].x + page.offset_x
                              /\ page.images[k].y0 = others[k].y + page.offset_y
                              /\ page.images[k].x1 - page.images[k].x0 = points(others[k].pix.width)
                              /\ page.images[k].y1 - page.images[k].y0 = points(others[k].pix.height)

\* C24 happens: the first page has a mark that does not rasterize, left of and above
\* the page, and then a mark that does; a second page follows
FailedMarkIsSkippedWitness ==
    /\ comp.done
    /\ Len(comp.src) = 2
    /\ comp.src[1].rotation = 0
    /\ Len(MarksOfPage(1)) = 2
    /\ MarksOfPage(1)[1] = [x |-> -10, y |-> -10, pix |-> [null |-> TRUE, width |-> 0, height |-> 0]]
    /\ MarksOfPage(1)[2] = [x |-> -4, y |-> 5, pix |-> [null |-> FALSE, width |-> 50, height |-> 25]]
    /\ comp.out[1].width = 44
    /\ comp.out[1].height = 50
    /\ comp.out[1].images = <<Rect(0, 5, 12, 11)>>
    /\ Len(comp.out) = 2
    /\ comp.out[2].width = 40

\* C26: the export document has one page for each page of the normalized source,
\* in the same order, with or without marks; marks recorded under a page index that
\* the document does not have are left out.
OnePagePerSourcePage ==
    comp.done =>
        LET content_source_doc == get_normalized_doc(comp.src, TRUE).pages
        IN  /\ Len(comp.out) = Len(content_source_doc)
            /\ \A i \in 1 .. Len(comp.out) :
                   /\ comp.out[i].content = content_source_doc[i].content
                   /\ comp.out[i].content.number = i - 1
                   /\ comp.out[i].dest_rect.x1 - comp.out[i].dest_rect.x0 = VisualWidth(i)
                   /\ comp.out[i].dest_rect.y1 - comp.out[i].dest_rect.y0 = VisualHeight(i)
                   /\ (i - 1) \notin DOMAIN comp.marks =>
                          /\ comp.out[i].images = <<>>
                          /\ comp.out[i].width = VisualWidth(i)
                          /\ comp.out[i].height = VisualHeight(i)

\* C26 happens: a file of one page is exported with two marks recorded under the
\* page index 1
OnePagePerSourcePageWitness ==
    /\ comp.done
    /\ Len(comp.src) = 1
    /\ DOMAIN comp.marks = {1}
    /\ Len(comp.marks[1]) = 2
    /\ ~comp.marks[1][1].pix.null
    /\ Len(comp.out) = 1
    /\ comp.out[1].images = <<>>
    /\ comp.out[1].content.number = 0

-----------------------------------------------------------------------------
(* Sidecar persistence: files that cannot be written or read back *)

\* sidecars file f can have when its folder is opened, those another program wrote
\* or damaged and a folder that cannot be written among them
SideSidecars(f) ==
    InitialSidecars(f) \cup
    { [Absent EXCEPT !.writable = FALSE],
      [(CHOOSE sc \in InitialSidecars(f) : sc.exists) EXCEPT !.full = TRUE],
      [exists |-> TRUE, writable |-> TRUE, full |-> FALSE,
     form |-> "invalid", pdf_path |-> "",
       all_marks |-> [k \in {} |-> <<>>]],
      [exists |-> TRUE, writable |-> TRUE, full |-> FALSE,
     form |-> "array", pdf_path |-> "",
       all_marks |-> [k \in {} |-> <<>>]],
      [exists |-> TRUE, writable |-> TRUE, full |-> FALSE,
     form |-> "marks_array", pdf_path |-> f,
       all_marks |-> [k \in {} |-> <<>>]],
      [exists |-> TRUE, writable |-> TRUE, full |-> FALSE,
     form |-> "no_all_marks", pdf_path |-> f,
       all_marks |-> [k \in {} |-> <<>>]],
      [exists |-> TRUE, writable |-> TRUE, full |-> FALSE,
     form |-> "object", pdf_path |-> f,
       all_marks |-> [k \in {"0", "x"} |->
            << Mark(CHOOSE s \in Styles : s.text = "good", <<10, 20>>) >>]] }

InitSide ==
    /\ pdf_path = None
    /\ current_page_idx = 0
    /\ all_marks = EmptyMarks
    /\ heap = <<>>
    /\ undo_stack = <<>>
    /\ scene = [m \in {} |-> <<0, 0>>]
    /\ disk \in { d \in [Files -> UNION { SideSidecars(f) : f \in Files }] :
                    \A f \in Files : d[f] \in SideSidecars(f) }
    /\ nops = 0
    /\ run = NoRun
    /\ last = Did("init", FALSE)
    /\ wrap = NoWrap
    /\ norm = NoNorm
    /\ comp = NoComp
    /\ batch = NoBatch

\* the handles a call of export_pdf_with_marks has opened
Handles == {"content_source_doc", "export_doc"}

\* what can go wrong while one file is exported: fitz.open(pdf_path) fails, a call
\* on a page fails while it is composed, export_doc.save(out_path) fails
Failures == {"none", "open", "compose", "save"}

\* one call of export_pdf_with_marks on a file of the list: raised: an error left
\* the call; reported: a message box was shown; written: out_path holds out; open:
\* the handles the call opened and did not close
export_run(file) ==
    LET content_source_doc == get_normalized_doc(file.src, file.fails # "open")
    IN  IF content_source_doc.returned = "None"
        THEN [raised |-> TRUE, reported |-> FALSE, written |-> FALSE, out |-> <<>>,
              open |-> {"export_doc"}]
        ELSE IF file.fails = "compose"
        THEN [raised |-> TRUE, reported |-> FALSE, written |-> FALSE, out |-> <<>>,
              open |-> Handles]
        ELSE IF file.fails = "save"
        THEN [raised |-> FALSE, reported |-> TRUE, written |-> FALSE, out |-> <<>>,
              open |-> Handles]
        ELSE [raised |-> FALSE, reported |-> FALSE, written |-> TRUE,
              out |-> export_pdf_with_marks(file.src, file.marks), open |-> {}]

\* the loop over self.file_list: the results of the calls made, up to the first
\* call that raises
RECURSIVE export_loop(_)
export_loop(files) ==
    IF files = <<>> THEN <<>>
    ELSE LET first == export_run(Head(files))
         IN  IF first.raised THEN <<first>>
             ELSE <<first>> \o export_loop(Tail(files))

\* export_all_pdfs: every file of the list is exported from its own sidecar, then
\* the open file is shown again with load_sidecar_data and render_current_page;
\* all_marks and undo_stack are not reset before the load.  An error raised by a
\* call of export_pdf_with_marks leaves the handler at once.
export_all_pdfs(files) ==
    LET results == export_loop(files)
        raised == results[Len(results)].raised
        loaded == load_sidecar_data(disk, pdf_path, all_marks, heap)
    IN  /\ pdf_path # None
        /\ files # <<>>
        /\ batch' = [files |-> files, results |-> results, raised |-> raised,
                     done |-> TRUE]
        /\ last' = [Did("export_all", FALSE) EXCEPT !.raised = raised]
        /\ IF raised
           THEN UNCHANGED <<all_marks, heap, scene>>
           ELSE /\ Len(loaded[2]) <= MaxMarks
                /\ all_marks' = loaded[1]
                /\ heap' = ensure_defaults(loaded[1], loaded[2], current_page_idx)
                /\ scene' = render_current_page(loaded[1], loaded[2], current_page_idx)
        /\ UNCHANGED <<pdf_path, current_page_idx, undo_stack, disk, nops, run,
                       wrap, norm, comp>>

\* a list of one file that is exported without a failure
SideBatch ==
    << [src |-> << SourcePage(0, <<40, 50>>, 0) >>, fails |-> "none",
        marks |-> [q \in {} |-> <<>>]] >>

NextSide ==
    \/ \E f \in Files : load_file_by_index(f)
    \/ next_page
    \/ prev_page
    \/ \E pos \in Positions, style \in Styles :
           nops < MaxOps /\ scene_double_click_handler(pos, style)
    \/ export_all_pdfs(SideBatch)

SpecSide == InitSide /\ [][NextSide]_vars

\* C19: saving a page-marks mapping to its sidecar and loading that sidecar gives a
\* mapping with the same integer page keys and, page by page, the same marks with
\* equal fields in the same order.
SaveLoadRoundTrip ==
    [][ ( /\ last'.op = "load"
          /\ pdf_path # None
          /\ pdf_path' = pdf_path
          /\ disk[pdf_path].writable
          /\ ~disk[pdf_path].full )
        => ( /\ disk'[pdf_path] = SidecarOf(pdf_path, all_marks, heap)
             /\ DOMAIN all_marks' \subseteq Pages
             /\ Content(all_marks', heap') = Content(all_marks, heap) ) ]_vars

\* C19 happens: a file with marks on both pages was saved and loaded again
SaveLoadRoundTripWitness ==
    /\ last.op = "load"
    /\ last.saved
    /\ pdf_path # None
    /\ disk[pdf_path].writable
    /\ ~disk[pdf_path].full
    /\ DOMAIN disk[pdf_path].all_marks = {"0", "1"}
    /\ DOMAIN all_marks = {0, 1}
    /\ Len(all_marks[0]) = 2
    /\ Len(all_marks[1]) = 1
    /\ Content(all_marks, heap)[1][1].text = "nice"

\* C20: after a load of a sidecar that is missing or cannot be parsed the page-marks
\* mapping is empty, whatever it held before, and no error has been raised.
UnusableSidecarLoadsEmpty ==
    ( /\ last.op \in {"load", "export_all"}
      /\ pdf_path # None
      /\ ~Loadable(disk[pdf_path]) )
    => (all_marks = EmptyMarks /\ ~last.raised)

\* C21: a save that fails, because the file cannot be opened for writing or because
\* the write breaks off, raises no error and leaves the sidecar that was on disk
\* before the attempt as it was, neither emptied nor partly overwritten.
FailedSaveKeepsSidecar ==
    [][ \A f \in Files :
            ( /\ pdf_path = f
              /\ last'.saved
              /\ (~disk[f].writable \/ disk[f].full) )
            => (disk'[f] = disk[f] /\ ~last'.raised) ]_vars

-----------------------------------------------------------------------------
(* Export All over a list of files, some of which fail *)

\* the files of the list: one page rotated by 90, with one mark left of and above
\* the page, and what goes wrong when it is exported
BatchFiles ==
    { [src |-> << SourcePage(90, <<40, 50>>, 0) >>, fails |-> f,
       marks |-> [q \in {0} |-> << [x |-> -4, y |-> -10,
                                    pix |-> [null |-> FALSE, width |-> 50, height |-> 25]] >>]] :
          f \in Failures }

\* the lists of 1 .. n files
RECURSIVE Batches(_)
Batches(n) ==
    IF n = 0 THEN {}
    ELSE { <<f>> : f \in BatchFiles }
         \cup { <<f>> \o l : f \in BatchFiles, l \in Batches(n - 1) }

\* application state after construction, the sidecar present or not
InitBatch ==
    /\ pdf_path = None
    /\ current_page_idx = 0
    /\ all_marks = EmptyMarks
    /\ heap = <<>>
    /\ undo_stack = <<>>
    /\ scene = [m \in {} |-> <<0, 0>>]
    /\ disk \in { d \in [Files -> UNION { InitialSidecars(f) : f \in Files }] :
                    \A f \in Files : d[f] \in InitialSidecars(f) }
    /\ nops = 0
    /\ run = NoRun
    /\ last = Did("init", FALSE)
    /\ wrap = NoWrap
    /\ norm = NoNorm
    /\ comp = NoComp
    /\ batch = NoBatch

NextBatch ==
    \/ \E f \in Files : load_file_by_index(f)
    \/ next_page
    \/ prev_page
    \/ \E files \in Batches(MaxBatch) : export_all_pdfs(files)

SpecBatch == InitBatch /\ [][NextBatch]_vars

\* C22: when a source PDF cannot be opened its export shows a message and returns
\* without an error and without an output file, and in Export All every other file
\* of the list is still exported.
UnopenableSourceIsReported ==
    ( /\ batch.done
      /\ \A i \in 1 .. Len(batch.files) : batch.files[i].fails \in {"none", "open"} )
    => ( /\ ~batch.raised
         /\ Len(batch.results) = Len(batch.files)
         /\ \A i \in 1 .. Len(batch.results) :
                IF batch.files[i].fails = "open"
                THEN /\ batch.results[i].reported
                     /\ ~batch.results[i].raised
                     /\ ~batch.results[i].written
                ELSE batch.results[i].written )

\* C23: when an export returns, after a save that succeeded, a save that failed or
\* an error on a page, it has closed both the normalized source document and the
\* export document.
ExportClosesDocuments ==
    \A i \in 1 .. Len(batch.results) :
        batch.files[i].fails \in {"none", "save", "compose"}
            => batch.results[i].open = {}

-----------------------------------------------------------------------------
(* Sidecars of earlier versions: marks stored without font, size or width *)

\* the mark records an earlier version can have stored at pos: each of font, size
\* and width stored or left out
LegacyMarks(pos) ==
    { [Mark(CHOOSE s \in Styles : s.text = "nice", pos)
           EXCEPT !.font = f, !.size = sz, !.width = w] :
          f \in {"Arial", MissingField.font},
          sz \in {12, MissingField.size},
          w \in {40, MissingField.width} }

\* a sidecar of file f with one such mark on page 0 and one on page 1
LegacySidecars(f) ==
    { [exists |-> TRUE, writable |-> TRUE, full |-> FALSE,
       form |-> "object", pdf_path |-> f,
       all_marks |-> [k \in {"0", "1"} |-> IF k = "0" THEN <<m0>> ELSE <<m1>>]] :
          m0 \in LegacyMarks(<<10, 20>>), m1 \in LegacyMarks(<<50, 60>>) }

\* application state after construction, a.pdf with a sidecar of an earlier version
InitLegacy ==
    /\ pdf_path = None
    /\ current_page_idx = 0
    /\ all_marks = EmptyMarks
    /\ heap = <<>>
    /\ undo_stack = <<>>
    /\ scene = [m \in {} |-> <<0, 0>>]
    /\ disk \in { d \in [Files -> UNION { LegacySidecars(f) : f \in Files }] :
                    \A f \in Files : d[f] \in LegacySidecars(f) }
    /\ nops = 0
    /\ run = NoRun
    /\ last = Did("init", FALSE)
    /\ wrap = NoWrap
    /\ norm = NoNorm
    /\ comp = NoComp
    /\ batch = NoBatch

NextLegacy ==
    \/ \E f \in Files : load_file_by_index(f)
    \/ next_page
    \/ prev_page

SpecLegacy == InitLegacy /\ [][NextLegacy]_vars

\* C25: after a sidecar is loaded every mark of every page of the mapping that was
\* stored without font, size or width has the default there (Fira Code, 10, 30), and
\* a field that was stored has the stored value.
LoadedMarksHaveDefaults ==
    (last.op = "load" /\ pdf_path # None) =>
        \A p \in DOMAIN all_marks : \A k \in 1 .. Len(all_marks[p]) :
            LET stored == disk[pdf_path].all_marks[DumpKey(p)][k]
                m == heap[all_marks[p][k]]
            IN  /\ m.font = IF stored.font = MissingField.font THEN DEFAULT_FONT ELSE stored.font
                /\ m.size = IF stored.size = MissingField.size THEN DEFAULT_SIZE ELSE stored.size
                /\ m.width = IF stored.width = MissingField.width THEN DEFAULT_WRAP ELSE stored.width
                /\ m.text = stored.text

-----------------------------------------------------------------------------
(* Undo after Export All has loaded the sidecar again *)

NextReload ==
    \/ \E f \in Files : load_file_by_index(f)
    \/ \E it \in DOMAIN scene, style \in Styles :
           nops < MaxOps /\ mouseDoubleClickEvent(it, style)
    \/ \E it \in DOMAIN scene, new_pos \in Positions : mouseReleaseEvent(it, new_pos, MaxOps)
    \/ export_all_pdfs(SideBatch)
    \/ undo_last_action

SpecReload == Init /\ [][NextReload]_vars

\* the undo entry that the next call of undo_last_action takes
TopEntry == undo_stack[Len(undo_stack)]

\* the dicts held in the page-marks mapping
StoredMarks(marks) == UNION { Range(marks[p]) : p \in DOMAIN marks }

\* C27: a Move or Edit recorded before Export All is, when undone after it, undone
\* on the mark the store holds: that mark has the position or the fields it had
\* before, and the sidecar written by the undo holds them.
UndoAfterExportAllRestoresStore ==
    [][ ( /\ last'.op = "undo"
          /\ undo_stack # <<>>
          /\ TopEntry.type \in {"move", "edit"} )
        => ( /\ TopEntry.mark \in StoredMarks(all_marks')
             /\ TopEntry.type = "move" =>
                    <<heap'[TopEntry.mark].x, heap'[TopEntry.mark].y>> = TopEntry.before
             /\ TopEntry.type = "edit" => heap'[TopEntry.mark] = TopEntry.before
             /\ disk'[pdf_path] = SidecarOf(pdf_path, all_marks', heap') ) ]_vars

-----------------------------------------------------------------------------
(* Two files in the list: switching from one document to the other *)

FileList == {"a.pdf", "b.pdf"}

\* application state after construction, each file with or without a sidecar
InitSwitch ==
    /\ pdf_path = None
    /\ current_page_idx = 0
    /\ all_marks = EmptyMarks
    /\ heap = <<>>
    /\ undo_stack = <<>>
    /\ scene = [m \in {} |-> <<0, 0>>]
    /\ disk \in { d \in [FileList -> UNION { InitialSidecars(f) : f \in FileList }] :
                    \A f \in FileList : d[f] \in InitialSidecars(f) }
    /\ nops = 0
    /\ run = NoRun
    /\ last = Did("init", FALSE)
    /\ wrap = NoWrap
    /\ norm = NoNorm
    /\ comp = NoComp
    /\ batch = NoBatch

NextSwitch ==
    \/ \E f \in FileList : load_file_by_index(f)
    \/ \E pos \in Positions, style \in Styles :
           nops < MaxOps /\ scene_double_click_handler(pos, style)
    \/ \E it \in DOMAIN scene, new_pos \in Positions : mouseReleaseEvent(it, new_pos, MaxOps)
    \/ undo_last_action

SpecSwitch == InitSwitch /\ [][NextSwitch]_vars

\* the page-marks mapping a sidecar file holds, as load_sidecar_data reads it
MappingOf(file) ==
    IF file.exists
    THEN [p \in { LoadKey(k) : k \in DOMAIN file.all_marks } |-> file.all_marks[DumpKey(p)]]
    ELSE EmptyMarks

\* C29: opening another file saves the marks of the open document to its own
\* sidecar, then empties the mapping and the undo log before the sidecar of the new
\* file is read; an undo after the switch applies nothing recorded on the previous
\* document and never changes a sidecar other than that of the open file.
SwitchSavesThenForgets ==
    [][ /\ (last'.op = "load" /\ pdf_path # None) =>
               /\ disk'[pdf_path] = SidecarOf(pdf_path, all_marks, heap)
               /\ \A g \in FileList \ {pdf_path} : disk'[g] = disk[g]
               /\ undo_stack' = <<>>
               /\ Content(all_marks', heap') = MappingOf(disk'[pdf_path'])
        /\ last'.op = "undo" =>
               /\ \A g \in FileList \ {pdf_path} : disk'[g] = disk[g]
               /\ last.op = "load" =>
                      /\ ~last'.saved
                      /\ all_marks' = all_marks
                      /\ heap' = heap
                      /\ disk' = disk ]_vars

\* C29 happens: a mark was added to a.pdf and the first mark moved, b.pdf was
\* opened, and undo was called: a.mlat holds the added mark and the move, the
\* mapping is that of b.mlat
SwitchSavesThenForgetsWitness ==
    /\ last.op = "undo"
    /\ pdf_path = "b.pdf"
    /\ undo_stack = <<>>
    /\ DOMAIN disk["a.pdf"].all_marks = {"0"}
    /\ Len(disk["a.pdf"].all_marks["0"]) = 3
    /\ disk["a.pdf"].all_marks["0"][1].x = 50
    /\ DOMAIN disk["b.pdf"].all_marks = {"0"}
    /\ Len(disk["b.pdf"].all_marks["0"]) = 2
    /\ Content(all_marks, heap) = MappingOf(disk["b.pdf"])

====
